---------------------------- MODULE Spec2Model ----------------------------
(***************************************************************************)
(* A model of graphene_django_plus_optimizer/query.py: the selection       *)
(* walker (QueryOptimizer) and the plan store (QueryOptimizerStore).       *)
(*                                                                         *)
(* The walk is a recursion over the selection tree.  It is modelled as a   *)
(* call stack: one frame per running _optimize_gql_selections call, the    *)
(* top frame being the innermost.  The selection tree is the input; it is  *)
(* drawn one selection at a time as the walker reaches it.                 *)
(*                                                                         *)
(* Python's None is modelled by "" for names (both are falsy) and by the   *)
(* flag only_none for QueryOptimizerStore.only_list.                       *)
(***************************************************************************)
EXTENDS Integers, Sequences, FiniteSets, TLC

\* django.db.models.constants.LOOKUP_SEP
LOOKUP_SEP == "__"

\* Bounds of the explored selection trees.
MaxDepth == 3
MaxSelections == 3
\* The first MaxDirected selections of a walk may carry directives.
MaxDirected == 1

Range(s) == {s[i] : i \in 1..Len(s)}

\* The empty dict {}.
EmptyDict == [k \in {} |-> ""]

\* dict.update(b) on a
DictUpdate(a, b) ==
    [k \in (DOMAIN a) \cup (DOMAIN b) |-> IF k \in DOMAIN b THEN b[k] ELSE a[k]]

(***************************************************************************)
(* The lazy query object (a Django QuerySet), as the calls made on it:     *)
(* select_related, prefetch_related, annotate, only, and the two           *)
(* attributes the optimizer reads or writes.                               *)
(***************************************************************************)
Queryset(model, parent_id) ==
    [model |-> model,
     select_related |-> <<>>,
     prefetch_related |-> <<>>,
     annotate |-> EmptyDict,
     projected |-> FALSE,
     only |-> <<>>,
     gql_optimized |-> FALSE,
     gql_parent_id_field |-> parent_id]

\* The query slot of a batched-load entry that is a bare relation name.
NoQueryset == Queryset("", "")

\* A batched-load entry: a bare lookup string, or Prefetch(lookup, queryset).
Bare(name) == [bound |-> FALSE, prefetch_to |-> name, queryset |-> NoQueryset]
Prefetch(name, qs) == [bound |-> TRUE, prefetch_to |-> name, queryset |-> qs]

\* Prefetch.add_prefix(name), and name + LOOKUP_SEP + prefetch for a string.
PrefixedPrefetch(name, p) ==
    [p EXCEPT !.prefetch_to = name \o LOOKUP_SEP \o @]

(***************************************************************************)
(* QueryOptimizerStore                                                     *)
(***************************************************************************)
NewStore(disable) ==
    [select_list |-> <<>>,
     prefetch_list |-> <<>>,
     annotate_dict |-> EmptyDict,
     only_none |-> FALSE,
     only_list |-> <<>>,
     disable_abort_only |-> disable,
     prefetch_not_applied |-> <<>>,
     append_only_list |-> <<>>]

\* "store.only_list" in a condition: neither None nor empty.
OnlyTruthy(s) == ~s.only_none /\ s.only_list # <<>>

Prefixed(name, seq) == [i \in 1..Len(seq) |-> name \o LOOKUP_SEP \o seq[i]]

PrefixedPrefetches(name, seq) == [i \in 1..Len(seq) |-> PrefixedPrefetch(name, seq[i])]

Only(s, field) ==
    IF ~s.only_none THEN [s EXCEPT !.only_list = Append(@, field)] ELSE s

AppendOnly(s, field) == [s EXCEPT !.append_only_list = Append(@, field)]

AbortOnlyOptimization(s) ==
    IF ~s.disable_abort_only
    THEN [s EXCEPT !.only_none = TRUE, !.only_list = <<>>]
    ELSE s

OptimizeQueryset(s, queryset) ==
    LET q1 == IF s.select_list # <<>>
              THEN [queryset EXCEPT !.select_related = @ \o s.select_list]
              ELSE queryset
        q2 == IF s.prefetch_list # <<>>
              THEN [q1 EXCEPT !.prefetch_related = @ \o s.prefetch_list]
              ELSE q1
        q3 == IF DOMAIN s.annotate_dict # {}
              THEN [q2 EXCEPT !.annotate = DictUpdate(@, s.annotate_dict)]
              ELSE q2
        q4 == IF OnlyTruthy(s) /\ s.append_only_list # <<>>
              THEN [q3 EXCEPT !.projected = TRUE,
                              !.only = s.only_list \o s.append_only_list]
              ELSE IF OnlyTruthy(s)
                   THEN [q3 EXCEPT !.projected = TRUE, !.only = s.only_list]
                   ELSE q3
    IN  [q4 EXCEPT !.gql_optimized = ~s.only_none]

\* A direct merge that takes over the child's only_list state whatever the
\* parent's own: the variant AbortIrreversible tells from append.
StoreAppendTakesChildOnly(s, c) ==
    [s EXCEPT
       !.select_list = @ \o c.select_list,
       !.prefetch_list = @ \o c.prefetch_list,
       !.annotate_dict = DictUpdate(@, c.annotate_dict),
       !.prefetch_not_applied = @ \o c.prefetch_not_applied,
       !.only_none = c.only_none,
       !.only_list = IF c.only_none THEN <<>> ELSE @ \o c.only_list,
       !.append_only_list = @ \o c.append_only_list]

\* store.append(child): the direct merge.
StoreAppend(s, c) ==
    [s EXCEPT
       !.select_list = @ \o c.select_list,
       !.prefetch_list = @ \o c.prefetch_list,
       !.annotate_dict = DictUpdate(@, c.annotate_dict),
       !.prefetch_not_applied = @ \o c.prefetch_not_applied,
       !.only_none = @ \/ c.only_none,
       !.only_list = IF s.only_none \/ c.only_none THEN <<>> ELSE @ \o c.only_list,
       !.append_only_list = @ \o c.append_only_list]

\* A merge returns the parent store, the child store as the merge left it,
\* whether the call raised, and the related query it optimized (if any).
Merged(parent, child, raised, queryset) ==
    [parent |-> parent, child |-> child, raised |-> raised, queryset |-> queryset]

\* The related model's default query, model_field.related_model.objects.all().
RelatedQueryset(model) == Queryset(model, "")

\* A batched-load merge that flattens the child's batched loads before it
\* looks at the child's join paths and columns: the variant
\* BatchedLoadMergeRule tells from prefetch_related.
PrefetchRelatedFlattensFirst(s, name, c, queryset, attname, id_field) ==
    IF c.prefetch_list # <<>>
    THEN Merged([s EXCEPT !.prefetch_list = @ \o PrefixedPrefetches(name, c.prefetch_list)],
                c, FALSE, NoQueryset)
    ELSE IF c.select_list # <<>> \/ OnlyTruthy(c)
         THEN Merged([s EXCEPT !.prefetch_list =
                         Append(@, Prefetch(name, OptimizeQueryset(c, queryset)))],
                     c, FALSE, OptimizeQueryset(c, queryset))
         ELSE Merged([s EXCEPT !.prefetch_list = Append(@, Bare(name))], c, FALSE, NoQueryset)

PrefetchRelated(s, name, c, queryset, attname, id_field) ==
    IF c.select_list # <<>> \/ OnlyTruthy(c)
    THEN LET c1 == IF attname # "" /\ OnlyTruthy(c)
                   THEN [c EXCEPT !.only_list = Append(@, attname)]
                   ELSE c
             c2 == IF id_field # "" /\ OnlyTruthy(c1) /\ id_field # "pk"
                   THEN [c1 EXCEPT !.only_list = Append(@, id_field)]
                   ELSE c1
             optimized == OptimizeQueryset(c2, queryset)
         IN  Merged([s EXCEPT !.prefetch_list = Append(@, Prefetch(name, optimized))],
                    c2, FALSE, optimized)
    ELSE IF c.prefetch_list # <<>>
         THEN Merged([s EXCEPT !.prefetch_list = @ \o PrefixedPrefetches(name, c.prefetch_list)],
                     c, FALSE, NoQueryset)
         ELSE Merged([s EXCEPT !.prefetch_list = Append(@, Bare(name))], c, FALSE, NoQueryset)

\* The relation descriptor handed to select_related; present = FALSE is None.
NoModelField ==
    [present |-> FALSE, name |-> "", attname |-> "", related_model |-> "",
     is_foreign_key |-> FALSE, many_to_one |-> FALSE, one_to_one |-> FALSE,
     one_to_many |-> FALSE, many_to_many |-> FALSE, is_relation |-> FALSE,
     is_many_to_one_rel |-> FALSE, remote_field_name |-> ""]

\* A join merge that keeps the parent's only_list as it is when the child's
\* is None: the variant AbortMonotonicityJoined tells from select_related.
SelectRelatedJoinKeepsOnly(s, name, c, id_field) ==
    LET s1 == IF c.select_list # <<>>
              THEN [s EXCEPT !.select_list = @ \o Prefixed(name, c.select_list)]
              ELSE [s EXCEPT !.select_list = Append(@, name)]
        s2 == [s1 EXCEPT !.prefetch_list = @ \o PrefixedPrefetches(name, c.prefetch_list)]
        withId == IF id_field # "" /\ id_field # "pk"
                  THEN <<name \o LOOKUP_SEP \o id_field>>
                  ELSE <<>>
    IN  IF ~s2.only_none /\ ~c.only_none
        THEN [s2 EXCEPT
                !.only_list = @ \o withId \o Prefixed(name, c.only_list),
                !.append_only_list = @ \o Prefixed(name, c.append_only_list)]
        ELSE s2

\* A join merge that leaves out the override identifier column: the variant
\* JoinMergeRule tells from select_related.
SelectRelatedJoinWithoutId(s, name, c, id_field) ==
    LET s1 == IF c.select_list # <<>>
              THEN [s EXCEPT !.select_list = @ \o Prefixed(name, c.select_list)]
              ELSE [s EXCEPT !.select_list = Append(@, name)]
        s2 == [s1 EXCEPT !.prefetch_list = @ \o PrefixedPrefetches(name, c.prefetch_list)]
    IN  IF ~s2.only_none
        THEN IF c.only_none
             THEN AbortOnlyOptimization(s2)
             ELSE [s2 EXCEPT
                     !.only_list = @ \o Prefixed(name, c.only_list),
                     !.append_only_list = @ \o Prefixed(name, c.append_only_list)]
        ELSE s2

SelectRelatedJoin(s, name, c, id_field) ==
    LET s1 == IF c.select_list # <<>>
              THEN [s EXCEPT !.select_list = @ \o Prefixed(name, c.select_list)]
              ELSE [s EXCEPT !.select_list = Append(@, name)]
        s2 == [s1 EXCEPT !.prefetch_list = @ \o PrefixedPrefetches(name, c.prefetch_list)]
        withId == IF id_field # "" /\ id_field # "pk"
                  THEN <<name \o LOOKUP_SEP \o id_field>>
                  ELSE <<>>
    IN  IF ~s2.only_none
        THEN IF c.only_none
             THEN AbortOnlyOptimization(s2)
             ELSE [s2 EXCEPT
                     !.only_list = @ \o withId \o Prefixed(name, c.only_list),
                     !.append_only_list = @ \o Prefixed(name, c.append_only_list)]
        ELSE s2

\* A join merge that takes the join branch whatever the child's annotations:
\* the variant JoinVsBatchByAnnotation tells from select_related.
SelectRelatedAlwaysJoins(s, name, c, model_field, id_field) ==
    Merged(SelectRelatedJoin(s, name, c, id_field), c, FALSE, NoQueryset)

SelectRelated(s, name, c, model_field, id_field) ==
    IF DOMAIN c.annotate_dict # {}
    THEN IF ~model_field.present
         THEN Merged(s, c, TRUE, NoQueryset)    \* None.attname: AttributeError
         ELSE PrefetchRelated(AppendOnly(s, model_field.attname), name, c,
                              RelatedQueryset(model_field.related_model), "", id_field)
    ELSE Merged(SelectRelatedJoin(s, name, c, id_field), c, FALSE, NoQueryset)


(***************************************************************************)
(* The schema and the model metadata the walker introspects.  They are     *)
(* external to the optimizer; the walk is explored over this fixture:      *)
(*   Book(id, title, author -> Author, coauthors <-> Author),              *)
(*   Novel(Book)(pages),                                                   *)
(*   Author(uuid, name, mentor -> Author, books <- Book.author).           *)
(* AuthorType declares the identifier override "uuid", MentorType (over    *)
(* the same model) declares "pk", the others declare none.                 *)
(***************************************************************************)
ObjectType(model, has_id_field, id_field) ==
    [kind |-> "object", model |-> model, relay |-> FALSE,
     has_id_field |-> has_id_field, id_field |-> id_field, possible |-> <<>>]

AbstractType(kind, possible) ==
    [kind |-> kind, model |-> "", relay |-> FALSE,
     has_id_field |-> FALSE, id_field |-> "", possible |-> possible]

\* A relay connection (_meta.node) or edge (cursor and node) type.
RelayType ==
    [kind |-> "object", model |-> "", relay |-> TRUE,
     has_id_field |-> FALSE, id_field |-> "", possible |-> <<>>]

TypeInfo(t) ==
    CASE t = "BookType" -> ObjectType("Book", FALSE, "")
      [] t = "NovelType" -> ObjectType("Novel", FALSE, "")
      [] t = "AuthorType" -> ObjectType("Author", TRUE, "uuid")
      [] t = "MentorType" -> ObjectType("Author", TRUE, "pk")
      [] t = "ItemIface" -> AbstractType("interface", <<"BookType", "NovelType">>)
      [] t = "SearchUnion" -> AbstractType("union", <<"BookType", "AuthorType">>)
      [] OTHER -> RelayType

\* issubclass(m, base)
IsSubclass(m, base) == m = base \/ (m = "Novel" /\ base = "Book")

\* The names of the join fields on the inheritance path from parent down to
\* model; empty when parent is the model itself or no ancestor of it.
PathFromParent(model, parent) ==
    IF model = "Novel" /\ parent = "Book" THEN <<"novel">> ELSE <<>>

RECURSIVE JoinNames(_)
\* LOOKUP_SEP.join(names)
JoinNames(names) ==
    IF names = <<>> THEN ""
    ELSE IF Len(names) = 1 THEN names[1]
    ELSE names[1] \o LOOKUP_SEP \o JoinNames(Tail(names))

Scalar(name) ==
    [NoModelField EXCEPT !.present = TRUE, !.name = name, !.attname = name]

ForeignKey(name, related) ==
    [NoModelField EXCEPT !.present = TRUE, !.name = name,
                         !.attname = name \o "_id", !.related_model = related,
                         !.is_foreign_key = TRUE, !.many_to_one = TRUE,
                         !.is_relation = TRUE]

ManyToMany(name, related) ==
    [NoModelField EXCEPT !.present = TRUE, !.name = name, !.attname = name,
                         !.related_model = related, !.many_to_many = TRUE,
                         !.is_relation = TRUE]

\* The reverse side of ForeignKey(remote, ...) declared on model `related`.
ManyToOneRel(name, related, remote) ==
    [NoModelField EXCEPT !.present = TRUE, !.name = name,
                         !.related_model = related, !.one_to_many = TRUE,
                         !.is_relation = TRUE, !.is_many_to_one_rel = TRUE,
                         !.remote_field_name = remote]

BookField(name) ==
    CASE name \in {"id", "title"} -> Scalar(name)
      [] name \in {"author", "author_id"} -> ForeignKey("author", "Author")
      [] name = "coauthors" -> ManyToMany("coauthors", "Author")
      [] OTHER -> NoModelField

AuthorField(name) ==
    CASE name \in {"uuid", "name"} -> Scalar(name)
      [] name \in {"mentor", "mentor_id"} -> ForeignKey("mentor", "Author")
      [] name = "books" -> ManyToOneRel("books", "Book", "author")
      [] OTHER -> NoModelField

\* _get_model_field_from_name: model._meta.get_field(name), None when the
\* model has no such field (get_field answers to a field's attname too).
GetModelFieldFromName(model, name) ==
    CASE model = "Book" -> BookField(name)
      [] model = "Novel" -> IF name = "pages" THEN Scalar(name) ELSE BookField(name)
      [] model = "Author" -> AuthorField(name)
      [] OTHER -> NoModelField

(***************************************************************************)
(* Resolvers and their optimization hints.  A resolver is described by     *)
(* the shape _get_name_from_resolver and _get_optimization_hints inspect:  *)
(*   "id"       partial(GlobalID.id_resolver, resolve_id, node)            *)
(*   "default"  partial(default_resolver, attr, default)                   *)
(*   "function" a plain user function                                      *)
(* and by the hints bundle found on the unwrapped function, if any.        *)
(***************************************************************************)
NoHints ==
    [present |-> FALSE, model_field |-> "", ignore |-> FALSE,
     select_related |-> <<>>, prefetch_related |-> <<>>,
     apply_prefetch_related |-> TRUE, annotate |-> EmptyDict, only |-> <<>>]

Hints == [NoHints EXCEPT !.present = TRUE]

Resolver(shape, attr, hints) == [shape |-> shape, attr |-> attr, hints |-> hints]

\* A field definition; type is the leaf type (_get_type), "" for a scalar.
Field(resolver, type) == [defined |-> TRUE, resolver |-> resolver, type |-> type]

NoField == [defined |-> FALSE, resolver |-> Resolver("function", "", NoHints), type |-> ""]

Default(attr, type) == Field(Resolver("default", attr, NoHints), type)

\* The bound query a prefetch hint returns: reviews filtered to the active ones.
ActiveReviews == [Queryset("Review", "") EXCEPT !.only = <<"status=active">>]

HintedField(name) ==
    CASE name = "rating" ->
           Field(Resolver("function", "",
                 [Hints EXCEPT !.annotate = [k \in {"avg_rating"} |-> "Avg(score)"]]), "")
      [] name = "summary" ->
           Field(Resolver("function", "",
                 [Hints EXCEPT !.model_field = "title", !.only = <<"subtitle">>]), "")
      [] name = "legacyCode" ->
           Field(Resolver("function", "",
                 [Hints EXCEPT !.model_field = "title", !.ignore = TRUE,
                               !.select_related = <<"series">>,
                               !.prefetch_related = <<Bare("reviews")>>,
                               !.apply_prefetch_related = FALSE]), "")
      [] name = "recent" ->
           Field(Resolver("function", "",
                 [Hints EXCEPT !.prefetch_related = <<Prefetch("reviews", ActiveReviews)>>]), "")
      [] OTHER -> NoField

HintedNames == {"rating", "summary", "legacyCode", "recent"}

BookTypeField(name) ==
    CASE name = "id" -> Field(Resolver("id", "", NoHints), "")
      [] name = "title" -> Default("title", "")
      [] name = "author" -> Default("author", "AuthorType")
      [] name = "authorId" -> Default("author_id", "")
      [] name = "coauthors" -> Default("coauthors", "AuthorType")
      [] name = "fullTitle" -> Field(Resolver("function", "", NoHints), "")
      [] OTHER -> HintedField(name)

BookTypeNames ==
    {"id", "title", "author", "authorId", "coauthors", "fullTitle"} \cup HintedNames

AuthorTypeField(name) ==
    CASE name = "id" -> Field(Resolver("id", "", [Hints EXCEPT !.only = <<"slug">>]), "")
      [] name = "name" -> Default("name", "")
      [] name = "mentor" -> Default("mentor", "MentorType")
      [] name = "books" -> Default("books", "BookType")
      [] name = "fullName" -> Default("full_name", "")
      [] name = "rating" -> HintedField(name)
      [] OTHER -> NoField

AuthorTypeNames == {"id", "name", "mentor", "books", "fullName", "rating"}

MentorTypeField(name) ==
    CASE name = "name" -> Default("name", "")
      [] name = "fullName" -> Default("full_name", "")
      [] OTHER -> NoField

MentorTypeNames == {"name", "fullName"}

\* possible_type.fields.get(name)
FieldDef(t, name) ==
    CASE t = "BookType" -> BookTypeField(name)
      [] t = "NovelType" -> IF name = "pages" THEN Default("pages", "") ELSE BookTypeField(name)
      [] t = "AuthorType" -> AuthorTypeField(name)
      [] t = "MentorType" -> MentorTypeField(name)
      [] t = "BookConnection" ->
           IF name = "edges" THEN Field(Resolver("function", "", NoHints), "BookEdge") ELSE NoField
      [] t = "BookEdge" ->
           IF name = "node" THEN Field(Resolver("function", "", NoHints), "BookType")
           ELSE IF name = "cursor" THEN Field(Resolver("function", "", NoHints), "")
           ELSE NoField
      [] OTHER -> NoField

\* The field names a valid selection set of type t can hold.
FieldNames(t) ==
    CASE t \in {"BookType", "ItemIface"} -> BookTypeNames
      [] t = "NovelType" -> BookTypeNames \cup {"pages"}
      [] t = "AuthorType" -> AuthorTypeNames
      [] t = "MentorType" -> MentorTypeNames
      [] t = "BookConnection" -> {"edges"}
      [] t = "BookEdge" -> {"node", "cursor"}
      [] OTHER -> {}

\* The query variables bound for the request, root_info.variable_values.
VariableValues == [v \in {"on", "off"} |-> v = "on"]

\* options.get('id_field', 'id')
IdFieldOption == "id"

\* _get_possible_types
GetPossibleTypes(t) ==
    IF TypeInfo(t).kind \in {"interface", "union"} THEN TypeInfo(t).possible ELSE <<t>>

\* _get_base_model: the first model every other one is a subclass of, "" if none.
GetBaseModel(types) ==
    LET models == [i \in 1..Len(types) |-> TypeInfo(types[i]).model]
        good == {i \in 1..Len(models) :
                    \A j \in 1..Len(models) : IsSubclass(models[j], models[i])}
    IN  IF good = {} THEN ""
        ELSE models[CHOOSE i \in good : \A j \in good : i <= j]


(***************************************************************************)
(* Directives.  A directive carries one argument, "if", whose value is a   *)
(* boolean literal or a variable looked up in the bound variable values.   *)
(***************************************************************************)
Literal(b) == [is_variable |-> FALSE, var_name |-> "", value |-> b]
Variable(v) == [is_variable |-> TRUE, var_name |-> v, value |-> FALSE]

ArgValues == {Literal(TRUE), Literal(FALSE), Variable("on"), Variable("off")}

Directives == [name : {"skip", "include"}, arg : ArgValues]

\* The directive lists of a selection: no directive name twice.
DirectiveLists ==
    {<<>>} \cup {<<d>> : d \in Directives}
           \cup {p \in Directives \X Directives : p[1].name # p[2].name}

\* The value the loop stores in args['if'].
ArgValue(arg) == IF arg.is_variable THEN VariableValues[arg.var_name] ELSE arg.value

RECURSIVE OptimizeFieldByDirectives(_)
\* TRUE when the directives make _optimize_field return at once.
OptimizeFieldByDirectives(directives) ==
    IF directives = <<>> THEN FALSE
    ELSE LET d == Head(directives)
         IN  IF d.name = "include" THEN ~ArgValue(d.arg)
             ELSE IF d.name = "skip" THEN ArgValue(d.arg)
             ELSE OptimizeFieldByDirectives(Tail(directives))

(***************************************************************************)
(* Field classification                                                    *)
(***************************************************************************)
\* _get_name_from_resolver: the attribute name ("" for None) and the ignore flag.
GetNameFromResolver(resolver, parent_type) ==
    IF resolver.hints.present /\ resolver.hints.model_field # ""
    THEN [name |-> resolver.hints.model_field, ignore |-> resolver.hints.ignore]
    ELSE IF resolver.shape = "id"
         THEN IF TypeInfo(parent_type).has_id_field
              THEN [name |-> TypeInfo(parent_type).id_field, ignore |-> FALSE]
              ELSE [name |-> IdFieldOption, ignore |-> FALSE]
         ELSE IF resolver.shape = "default"
              THEN [name |-> resolver.attr, ignore |-> FALSE]
              ELSE [name |-> "", ignore |-> FALSE]

IsForeignKeyId(model_field, name) ==
    model_field.is_foreign_key /\ model_field.name # name /\ model_field.attname = name

\* The branches without the foreign-key identifier test: the variant
\* FkShortcut tells from _optimize_field_by_name.
ByNameBranchWithoutShortcut(model, field_def, parent_type) ==
    LET nm == GetNameFromResolver(field_def.resolver, parent_type)
        mf == GetModelFieldFromName(model, nm.name)
    IN  IF nm.name = "" THEN "no_name"
        ELSE IF nm.ignore THEN "ignore"
        ELSE IF ~mf.present THEN "no_model_field"
        ELSE IF mf.many_to_one \/ mf.one_to_one THEN "select_related"
        ELSE IF mf.one_to_many \/ mf.many_to_many THEN "prefetch_related"
        ELSE IF ~mf.is_relation THEN "only"
        ELSE "unhandled"

\* The branch _optimize_field_by_name takes for a field.
ByNameBranch(model, field_def, parent_type) ==
    LET nm == GetNameFromResolver(field_def.resolver, parent_type)
        mf == GetModelFieldFromName(model, nm.name)
    IN  IF nm.name = "" THEN "no_name"
        ELSE IF nm.ignore THEN "ignore"
        ELSE IF ~mf.present THEN "no_model_field"
        ELSE IF IsForeignKeyId(mf, nm.name) THEN "foreign_key_id"
        ELSE IF mf.many_to_one \/ mf.one_to_one THEN "select_related"
        ELSE IF mf.one_to_many \/ mf.many_to_many THEN "prefetch_related"
        ELSE IF ~mf.is_relation THEN "only"
        ELSE "unhandled"

\* The branches on which _optimize_field_by_name returns True.
ByNameOptimized(branch) ==
    branch \in {"ignore", "foreign_key_id", "select_related", "prefetch_related", "only"}

\* The branches that walk the nested selection before they merge.
ByNameWalks(branch) == branch \in {"select_related", "prefetch_related"}

\* _optimize_field_by_name on a branch that walks no nested selection.
OptimizeFieldByNameLeaf(store, model, field_def, parent_type) ==
    LET nm == GetNameFromResolver(field_def.resolver, parent_type)
        branch == ByNameBranch(model, field_def, parent_type)
    IN  IF branch \in {"foreign_key_id", "only"} THEN Only(store, nm.name) ELSE store

\* _add_optimization_hints for the four hint results, and whether hints exist.
OptimizeFieldByHints(store, hints) ==
    IF ~hints.present THEN store
    ELSE LET s1 == [store EXCEPT !.select_list = @ \o hints.select_related]
             s2 == IF hints.apply_prefetch_related
                   THEN [s1 EXCEPT !.prefetch_list = @ \o hints.prefetch_related]
                   ELSE [s1 EXCEPT !.prefetch_not_applied = @ \o hints.prefetch_related]
             s3 == [s2 EXCEPT !.annotate_dict = DictUpdate(@, hints.annotate)]
         IN  IF ~s3.only_none
             THEN [s3 EXCEPT !.only_list = @ \o hints.only]
             ELSE s3

\* A tail in which the hints alone do not count as optimized: the variant
\* HintsAddToInference tells from _optimize_field.
OptimizeFieldTailByNameOnly(store, by_name, hints) ==
    LET hinted == OptimizeFieldByHints(store, hints)
    IN  IF by_name THEN hinted ELSE AbortOnlyOptimization(hinted)

\* The tail of _optimize_field once _optimize_field_by_name has returned
\* by_name with the store as it left it.
OptimizeFieldTail(store, by_name, hints) ==
    LET hinted == OptimizeFieldByHints(store, hints)
    IN  IF by_name \/ hints.present THEN hinted ELSE AbortOnlyOptimization(hinted)


(***************************************************************************)
(* The walk                                                                *)
(***************************************************************************)
VARIABLES
    disable_abort_only,   \* the option of QueryOptimizer.__init__
    has_deferred,         \* whether django.db.models.DEFERRED can be imported
    stack,                \* the running _optimize_gql_selections calls
    pc,                   \* "walk", "done" (optimize returned) or "raised"
    result,               \* the query optimize returned
    last,                 \* the call the walker made last, with its operands
    visited               \* the number of selections visited so far

vars == <<disable_abort_only, has_deferred, stack, pc, result, last, visited>>

\* The types of the root field the optimizer is called for.
RootTypes == {"AuthorType", "ItemIface", "SearchUnion", "BookConnection"}

\* The type conditions of inline fragments.
FragmentTypes == {"BookType", "NovelType", "AuthorType", "ItemIface"}

\* Why a frame was entered: the kind of selection, the name its store is
\* merged under, and for a field the type that defines it and its name.
\* kept is whether the directives of the field keep it (see
\* IncludedByDirectives).
Call(kind, name, type, field, kept) ==
    [kind |-> kind, name |-> name, type |-> type, field |-> field, kept |-> kept]

RootCall == Call("root", "", "", "", TRUE)

\* The locals of _optimize_field_by_name and _optimize_field for the field
\* `field` of `type`: the relation descriptor, the identifier override of
\* the field's type, and the resolver's hints.
ModelFieldOf(type, field) ==
    GetModelFieldFromName(TypeInfo(type).model,
                          GetNameFromResolver(FieldDef(type, field).resolver, type).name)

IdFieldOf(type, field) ==
    IF TypeInfo(FieldDef(type, field).type).has_id_field
    THEN TypeInfo(FieldDef(type, field).type).id_field
    ELSE ""

HintsOf(type, field) == FieldDef(type, field).resolver.hints

(* A frame: the type walked, the store, optimized_fields_by_model's keys. *)
(* The other fields describe the selection tree walked so far, for the    *)
(* properties: the columns the scope's selections request, the            *)
(* association keys its joins need, whether every field classified, and   *)
(* whether a store below ended aborted (over all merges, over join and    *)
(* direct merges only).                                                    *)
Frame(type, call) ==
    [type |-> type, store |-> NewStore(disable_abort_only), seen |-> {}, call |-> call,
     requested |-> {}, keys |-> {}, classified |-> TRUE,
     below_aborted |-> FALSE, joined_aborted |-> FALSE]

Top == stack[Len(stack)]

Caller == stack[Len(stack) - 1]

ReplaceTop(frame) == [stack EXCEPT ![Len(stack)] = frame]

NoStore == NewStore(FALSE)

\* The record of the last call: op says which, type and field name the
\* field selected (if one), name the resolved attribute or merge name,
\* branch the branch of _optimize_field_by_name or the kind of merge; pre is
\* the store before the call, by_name the store as _optimize_field_by_name
\* (or the merge) left it, child and child_after the merged store before and
\* after, queryset the query optimize_queryset returned in the call.
NoEvent ==
    [op |-> "none", name |-> "", type |-> "", field |-> "", below |-> FALSE,
     directives |-> <<>>, branch |-> "",
     pre |-> NoStore, by_name |-> NoStore, child |-> NoStore, child_after |-> NoStore,
     queryset |-> NoQueryset, requested |-> {}, keys |-> {}, classified |-> TRUE]

\* GraphQL's rule for @skip and @include: the field is kept iff no skip is
\* true and no include is false.
IncludedByDirectives(directives) ==
    \A i \in 1..Len(directives) :
        IF directives[i].name = "skip"
        THEN ~ArgValue(directives[i].arg)
        ELSE ArgValue(directives[i].arg)

PrefixedSet(name, columns) == {name \o LOOKUP_SEP \o c : c \in columns}

\* The first possible type that defines the field: it registers the name in
\* optimized_fields_by_model, so the loop does nothing for the later ones.
HandlingType(type, name) ==
    LET types == GetPossibleTypes(type)
        having == {i \in 1..Len(types) : FieldDef(types[i], name).defined}
    IN  IF having = {} THEN ""
        ELSE types[CHOOSE i \in having : \A j \in having : i <= j]

\* The columns of the model of type t a nested selection can request.
Columns(t) ==
    {GetNameFromResolver(FieldDef(t, n).resolver, t).name :
        n \in {m \in FieldNames(t) :
                 ByNameBranch(TypeInfo(t).model, FieldDef(t, m), t) = "only"}}

\* The columns a field asks of its model, by the field's definition alone.
FieldRequests(model, field_def, parent_type) ==
    IF ByNameBranch(model, field_def, parent_type) \in {"only", "foreign_key_id"}
    THEN {GetNameFromResolver(field_def.resolver, parent_type).name}
    ELSE {}

FieldClassifies(model, field_def, parent_type) ==
    ByNameOptimized(ByNameBranch(model, field_def, parent_type))
    \/ field_def.resolver.hints.present

Init ==
    /\ disable_abort_only \in BOOLEAN
    /\ \E root \in RootTypes :
           \* DEFERRED is looked for under a relay type only
        /\ has_deferred \in (IF TypeInfo(root).relay THEN BOOLEAN ELSE {TRUE})
        /\ stack = <<[type |-> root, store |-> NewStore(disable_abort_only), seen |-> {},
                      call |-> RootCall, requested |-> {}, keys |-> {},
                      classified |-> TRUE, below_aborted |-> FALSE,
                      joined_aborted |-> FALSE]>>
    /\ pc = "walk"
    /\ result = NoQueryset
    /\ last = NoEvent
    /\ visited = 0


\* A plain field selection whose name the selection set has not held yet:
\* the loop body of _optimize_gql_selections and _optimize_field.  A relation
\* field enters the walk of its nested selection; Return completes it.
SelectField(name, directives) ==
    /\ pc = "walk"
    /\ visited < MaxSelections
    /\ ~TypeInfo(Top.type).relay
    /\ name \in FieldNames(Top.type)
    /\ name \notin Top.seen
    /\ HandlingType(Top.type, name) # ""
    /\ directives # <<>> => visited < MaxDirected
    /\ LET parent_type == HandlingType(Top.type, name)
           field_def == FieldDef(parent_type, name)
           model == TypeInfo(parent_type).model
           hints == field_def.resolver.hints
           branch == ByNameBranch(model, field_def, parent_type)
           nm == GetNameFromResolver(field_def.resolver, parent_type)
           skipped == OptimizeFieldByDirectives(directives)
           walks == ~skipped /\ ByNameWalks(branch)
           by_name == OptimizeFieldByNameLeaf(Top.store, model, field_def, parent_type)
           kept == IncludedByDirectives(directives)
           noted == [Top EXCEPT
                       !.seen = @ \cup {name},
                       !.requested = IF kept
                                     THEN @ \cup FieldRequests(model, field_def, parent_type)
                                     ELSE @,
                       !.keys = IF kept THEN @ \cup Range(hints.only) ELSE @,
                       !.classified = @ /\ (kept => FieldClassifies(model, field_def, parent_type))]
       IN  /\ walks => Len(stack) < MaxDepth
           /\ stack' =
                IF skipped THEN ReplaceTop(noted)
                ELSE IF walks
                THEN Append(ReplaceTop(noted),
                            Frame(field_def.type,
                                  Call(branch, nm.name, parent_type, name, kept)))
                ELSE ReplaceTop([noted EXCEPT !.store =
                                   OptimizeFieldTail(by_name, ByNameOptimized(branch), hints)])
           /\ last' = [NoEvent EXCEPT
                         !.op = IF skipped THEN "skipped" ELSE IF walks THEN "call" ELSE "field",
                         !.name = nm.name, !.type = parent_type, !.field = name,
                         !.directives = directives, !.branch = branch,
                         !.pre = Top.store,
                         !.by_name = IF skipped \/ walks THEN Top.store ELSE by_name]
    /\ visited' = visited + 1
    /\ UNCHANGED <<disable_abort_only, has_deferred, pc, result>>

\* A plain field selection whose name is in optimized_fields_by_model: the
\* loop passes it over.  nested is what its nested selection asks for.
DuplicateField(name, nested) ==
    /\ pc = "walk"
    /\ visited < MaxSelections
    /\ ~TypeInfo(Top.type).relay
    /\ name \in Top.seen
    /\ LET parent_type == HandlingType(Top.type, name)
           field_def == FieldDef(parent_type, name)
           model == TypeInfo(parent_type).model
           branch == ByNameBranch(model, field_def, parent_type)
           nm == GetNameFromResolver(field_def.resolver, parent_type)
       IN  /\ \/ nested = {}
              \/ /\ branch = "select_related"
                 /\ \E c \in Columns(field_def.type) : nested = {c}
           /\ stack' = ReplaceTop([Top EXCEPT
                          !.requested = @ \cup FieldRequests(model, field_def, parent_type)
                                          \cup PrefixedSet(nm.name, nested)])
           /\ last' = [NoEvent EXCEPT !.op = "duplicate", !.name = nm.name,
                                      !.type = parent_type, !.field = name,
                                      !.branch = branch,
                                      !.pre = Top.store, !.by_name = Top.store,
                                      !.requested = nested]
    /\ visited' = visited + 1
    /\ UNCHANGED <<disable_abort_only, has_deferred, pc, result>>

\* The merge of a relay connection's or edge's field store, and the abort
\* that follows it where DEFERRED cannot be imported.
RelayMerge(store, relay_store) ==
    IF has_deferred
    THEN StoreAppend(store, relay_store)
    ELSE AbortOnlyOptimization(StoreAppend(store, relay_store))

\* A field of a relay connection or edge type.
RelayField(name) ==
    /\ pc = "walk"
    /\ visited < MaxSelections
    /\ TypeInfo(Top.type).relay
    /\ name \in FieldNames(Top.type)
    /\ LET field_def == FieldDef(Top.type, name)
           walks == field_def.type # ""
       IN  /\ walks => Len(stack) < MaxDepth
           /\ stack' =
                IF walks
                THEN Append(stack, Frame(field_def.type,
                                         Call("relay", name, "", "", TRUE)))
                ELSE ReplaceTop([Top EXCEPT !.store =
                                   RelayMerge(@, NewStore(disable_abort_only))])
           /\ last' = [NoEvent EXCEPT !.op = IF walks THEN "call" ELSE "relay",
                                      !.name = name, !.branch = "relay",
                                      !.pre = Top.store, !.by_name = Top.store,
                                      !.child = NewStore(disable_abort_only),
                                      !.child_after = NewStore(disable_abort_only)]
    /\ visited' = visited + 1
    /\ UNCHANGED <<disable_abort_only, has_deferred, pc, result>>

\* handle_inline_fragment: the concrete types of the fragment whose model
\* joins to the common base model of the position by a non-empty path.
InlineTargets(fragment_type, position) ==
    LET parent_model == GetBaseModel(GetPossibleTypes(position))
        Joins(t) == /\ parent_model # ""
                    /\ JoinNames(PathFromParent(TypeInfo(t).model, parent_model)) # ""
    IN  SelectSeq(GetPossibleTypes(fragment_type), Joins)

\* GraphQL lets a fragment spread where its type and the position's overlap.
FragmentApplies(fragment_type, position) ==
    Range(GetPossibleTypes(fragment_type)) \cap Range(GetPossibleTypes(position)) # {}

\* An inline fragment that handle_inline_fragment passes over (no base
\* model, or an empty join path).  nested is what its selection asks for.
SkipInlineFragment(fragment_type, nested) ==
    /\ pc = "walk"
    /\ visited < MaxSelections
    /\ ~TypeInfo(Top.type).relay
    /\ FragmentApplies(fragment_type, Top.type)
    /\ InlineTargets(fragment_type, Top.type) = <<>>
    /\ LET parent_model == GetBaseModel(GetPossibleTypes(Top.type))
           same == {t \in Range(GetPossibleTypes(fragment_type)) :
                       TypeInfo(t).model = parent_model}
       IN  /\ \/ nested = {}
              \/ \E t \in same : \E c \in Columns(t) : nested = {c}
           /\ stack' = ReplaceTop([Top EXCEPT !.requested = @ \cup nested])
           /\ last' = [NoEvent EXCEPT !.op = "skip_fragment", !.name = fragment_type,
                                      !.branch = "inline", !.pre = Top.store,
                                      !.by_name = Top.store, !.requested = nested]
    /\ visited' = visited + 1
    /\ UNCHANGED <<disable_abort_only, has_deferred, pc, result>>

\* An inline fragment with a join path: its selection is walked against the
\* fragment's concrete type.
WalkInlineFragment(fragment_type) ==
    /\ pc = "walk"
    /\ visited < MaxSelections
    /\ Len(stack) < MaxDepth
    /\ ~TypeInfo(Top.type).relay
    /\ FragmentApplies(fragment_type, Top.type)
    /\ Len(InlineTargets(fragment_type, Top.type)) = 1
    /\ LET target == InlineTargets(fragment_type, Top.type)[1]
           parent_model == GetBaseModel(GetPossibleTypes(Top.type))
           select_related_name ==
               JoinNames(PathFromParent(TypeInfo(target).model, parent_model))
       IN  /\ stack' = Append(stack, Frame(target,
                           Call("inline", select_related_name, "", "", TRUE)))
           /\ last' = [NoEvent EXCEPT !.op = "call", !.name = select_related_name,
                                      !.branch = "inline", !.pre = Top.store,
                                      !.by_name = Top.store]
    /\ visited' = visited + 1
    /\ UNCHANGED <<disable_abort_only, has_deferred, pc, result>>

\* handle_fragment_spread: the named fragment is walked against the same type.
FragmentSpread ==
    /\ pc = "walk"
    /\ visited < MaxSelections
    /\ Len(stack) < MaxDepth
    /\ stack' = Append(stack, Frame(Top.type,
                        Call("spread", "fragment", "", "", TRUE)))
    /\ last' = [NoEvent EXCEPT !.op = "call", !.name = "fragment", !.branch = "spread",
                               !.pre = Top.store, !.by_name = Top.store]
    /\ visited' = visited + 1
    /\ UNCHANGED <<disable_abort_only, has_deferred, pc, result>>


\* The nested store as _optimize_field_by_name hands it to the merge: a
\* reverse foreign key adds the column that points back at the parent.
NestedStore(call, store) ==
    IF call.kind = "prefetch_related" /\ ModelFieldOf(call.type, call.field).is_many_to_one_rel
    THEN Only(store, ModelFieldOf(call.type, call.field).remote_field_name)
    ELSE store

\* The merge of a walked nested store into its caller's store, by the kind
\* of selection that entered the walk.
MergeInto(parent, call, child) ==
    IF call.kind = "inline"
    THEN SelectRelated(parent, call.name, child, NoModelField, "")
    ELSE IF call.kind = "select_related"
    THEN SelectRelated(parent, call.name, child, ModelFieldOf(call.type, call.field),
                       IdFieldOf(call.type, call.field))
    ELSE IF call.kind = "prefetch_related"
    THEN PrefetchRelated(parent, call.name, child,
                         RelatedQueryset(ModelFieldOf(call.type, call.field).related_model),
                         "", "")
    ELSE IF call.kind = "relay"
    THEN Merged(RelayMerge(parent, child), child, FALSE, NoQueryset)
    ELSE Merged(StoreAppend(parent, child), child, FALSE, NoQueryset)

\* Whether the merge takes the batched-load rule (its own query scope).
Batched(call, child) ==
    \/ call.kind = "prefetch_related"
    \/ call.kind = "select_related" /\ DOMAIN child.annotate_dict # {}

\* The walk of a nested selection returns: its store is merged into the
\* caller's, and for a field the rest of _optimize_field runs.
Return ==
    /\ pc = "walk"
    /\ Len(stack) > 1
    /\ LET call == Top.call
           model_field == ModelFieldOf(call.type, call.field)
           id_field == IdFieldOf(call.type, call.field)
           child == NestedStore(call, Top.store)
           merge == MergeInto(Caller.store, call, child)
           is_field == call.kind \in {"select_related", "prefetch_related"}
           batched == Batched(call, child)
           prefixes == call.kind \in {"inline", "select_related"}
           after == IF is_field
                    THEN OptimizeFieldTail(merge.parent, TRUE, HintsOf(call.type, call.field))
                    ELSE merge.parent
           join_key == IF call.kind = "select_related" /\ id_field \notin {"", "pk"}
                       THEN {call.name \o LOOKUP_SEP \o id_field}
                       ELSE {}
           child_keys == Top.keys
                           \cup (IF call.kind = "prefetch_related"
                                    /\ model_field.is_many_to_one_rel
                                 THEN {model_field.remote_field_name} ELSE {})
                           \cup (IF call.kind = "select_related" /\ id_field \notin {"", "pk"}
                                 THEN {id_field} ELSE {})
           merged == [Caller EXCEPT
                        !.store = after,
                        !.requested =
                            IF batched \/ ~call.kept THEN @
                            ELSE IF prefixes THEN @ \cup PrefixedSet(call.name, Top.requested)
                            ELSE @ \cup Top.requested,
                        !.keys =
                            IF ~call.kept THEN @
                            ELSE IF batched
                            THEN @ \cup (IF call.kind = "select_related"
                                         THEN {model_field.attname} ELSE {})
                            ELSE IF prefixes
                            THEN @ \cup PrefixedSet(call.name, Top.keys) \cup join_key
                            ELSE @ \cup Top.keys,
                        !.classified = @ /\ Top.classified,
                        !.below_aborted = @ \/ Top.below_aborted \/ child.only_none,
                        !.joined_aborted = @ \/ (~batched /\ child.only_none)]
           event == [NoEvent EXCEPT
                       !.op = "merge", !.name = call.name, !.branch = call.kind,
                       !.type = call.type, !.field = call.field,
                       !.below = Top.joined_aborted, !.pre = Caller.store,
                       !.by_name = merge.parent, !.child = child,
                       !.child_after = merge.child, !.queryset = merge.queryset,
                       !.requested = Top.requested, !.keys = child_keys,
                       !.classified = Top.classified]
       IN  IF merge.raised
           THEN /\ pc' = "raised"
                /\ last' = [event EXCEPT !.op = "raise"]
                /\ UNCHANGED stack
           ELSE /\ pc' = pc
                /\ last' = event
                /\ stack' = Append(SubSeq(stack, 1, Len(stack) - 2), merged)
    /\ UNCHANGED <<disable_abort_only, has_deferred, result, visited>>

\* The tail of optimize(): the forced columns are added to the root store.
ForcedStore(store, parent_id_field, queryset, append_only) ==
    LET s1 == IF parent_id_field # "" THEN AppendOnly(store, parent_id_field) ELSE store
        s2 == IF queryset.gql_parent_id_field # ""
              THEN AppendOnly(s1, queryset.gql_parent_id_field)
              ELSE s1
    IN  IF append_only # <<>>
        THEN [s2 EXCEPT !.append_only_list = @ \o append_only]
        ELSE s2

\* The names the options and the given query may force into the projection.
ParentIdFields == {"", "shelf_id"}
AppendOnlyLists == {<<>>, <<"isbn">>}

\* The walk of the root selection has returned: optimize() adds the forced
\* columns and applies the store to the query it was given.
Optimize(parent_id_field, gql_parent_id_field, append_only) ==
    /\ pc = "walk"
    /\ Len(stack) = 1
    /\ LET queryset == Queryset(GetBaseModel(GetPossibleTypes(Top.type)), gql_parent_id_field)
           store == ForcedStore(Top.store, parent_id_field, queryset, append_only)
       IN  /\ result' = OptimizeQueryset(store, queryset)
           /\ stack' = ReplaceTop([Top EXCEPT !.store = store])
           /\ last' = [NoEvent EXCEPT
                         !.op = "optimize", !.pre = Top.store, !.by_name = store,
                         !.queryset = OptimizeQueryset(store, queryset),
                         !.requested = Top.requested, !.keys = Top.keys,
                         !.classified = Top.classified]
    /\ pc' = "done"
    /\ UNCHANGED <<disable_abort_only, has_deferred, visited>>

\* What an unwalked selection set can ask of the model of type t.
NestedRequests(t) == {{}} \cup {{c} : c \in Columns(t)}

DuplicateRequests == UNION {NestedRequests(t) : t \in {"AuthorType", "MentorType"}}

FragmentRequests == UNION {NestedRequests(t) : t \in FragmentTypes}

Next ==
    \/ \E name \in FieldNames(Top.type) \ Top.seen,
          directives \in (IF visited < MaxDirected THEN DirectiveLists ELSE {<<>>}) :
           SelectField(name, directives)
    \/ \E name \in Top.seen,
          nested \in DuplicateRequests :
           DuplicateField(name, nested)
    \/ \E name \in FieldNames(Top.type) : RelayField(name)
    \/ \E fragment_type \in FragmentTypes,
          nested \in FragmentRequests :
           SkipInlineFragment(fragment_type, nested)
    \/ \E fragment_type \in FragmentTypes : WalkInlineFragment(fragment_type)
    \/ FragmentSpread
    \/ Return
    \/ \E parent_id_field \in ParentIdFields, gql_parent_id_field \in ParentIdFields,
          append_only \in AppendOnlyLists :
           Optimize(parent_id_field, gql_parent_id_field, append_only)

Spec == Init /\ [][Next]_vars


(***************************************************************************)
(* Properties                                                              *)
(***************************************************************************)
\* C1 as stated: with disable_abort_only unset, a store below which some
\* subtree's store ended aborted is itself aborted, whichever merge carried
\* the subtree up (join, batched load, direct).
AbortMonotonicity ==
    ~disable_abort_only =>
        \A i \in 1..Len(stack) : stack[i].below_aborted => stack[i].store.only_none

\* C1 amended: with disable_abort_only unset, a store into which an aborted
\* store was carried by join merges (taking the join branch) and direct
\* merges only is itself aborted; the batched-load merge is left out.
AbortMonotonicityJoined ==
    ~disable_abort_only =>
        \A i \in 1..Len(stack) : stack[i].joined_aborted => stack[i].store.only_none

\* C1 witness: the root store is aborted by the join merge of a nested store
\* that had itself been aborted by a merge from below (two strict ancestors).
AbortMonotonicityWitness ==
    /\ ~disable_abort_only
    /\ Len(stack) = 1
    /\ last.op = "merge"
    /\ last.branch = "select_related"
    /\ last.below
    /\ last.child.only_none
    /\ ~last.pre.only_none
    /\ stack[1].joined_aborted
    /\ stack[1].store.only_none

\* C2: whenever optimize_queryset applies a projection to a query, every
\* column the selections of that query's scope request is projected.
NoUnderFetch ==
    (last.op \in {"optimize", "merge"} /\ last.queryset.projected) =>
        last.requested \subseteq Range(last.queryset.only)

\* C3: for a selection tree in which every field classifies, the columns
\* optimize finally projects are exactly the requested columns, the
\* association keys and the forced columns, also when only_list is empty.
ProjectionSound ==
    (last.op = "optimize" /\ last.classified) =>
        LET expected == last.requested \cup last.keys
                          \cup Range(last.by_name.append_only_list)
        IN  expected # {} =>
                /\ last.queryset.projected
                /\ Range(last.queryset.only) = expected

\* C4: a field some of whose directives evaluates to skip=true or
\* include=false adds nothing to the store and walks nothing; a field all
\* of whose directives evaluate to skip=false or include=true is optimized;
\* whatever the order of the directives.
DirectiveDeterminism ==
    (last.field # "" /\ last.op \in {"skipped", "field", "call"}) =>
        IF IncludedByDirectives(last.directives)
        THEN last.op # "skipped"
        ELSE last.op = "skipped" /\ Top.store = last.pre

\* The locals of the last field call.
LastHints == HintsOf(last.type, last.field)

LastModelField == ModelFieldOf(last.type, last.field)

LastIdField == IdFieldOf(last.type, last.field)

\* after is before plus exactly the values the hint functions of h return.
HintsAdded(before, after, h) ==
    /\ after.select_list = before.select_list \o h.select_related
    /\ after.prefetch_list =
           before.prefetch_list \o (IF h.apply_prefetch_related THEN h.prefetch_related ELSE <<>>)
    /\ after.prefetch_not_applied =
           before.prefetch_not_applied
               \o (IF h.apply_prefetch_related THEN <<>> ELSE h.prefetch_related)
    /\ DOMAIN after.annotate_dict = DOMAIN before.annotate_dict \cup DOMAIN h.annotate
    /\ \A k \in DOMAIN h.annotate : after.annotate_dict[k] = h.annotate[k]
    /\ \A k \in DOMAIN before.annotate_dict \ DOMAIN h.annotate :
           after.annotate_dict[k] = before.annotate_dict[k]
    /\ after.only_none = before.only_none
    /\ after.only_list = IF before.only_none THEN <<>> ELSE before.only_list \o h.only
    /\ after.append_only_list = before.append_only_list

GainedSelects ==
    SubSeq(last.by_name.select_list, Len(last.pre.select_list) + 1,
           Len(last.by_name.select_list))

GainedPrefetches ==
    SubSeq(last.by_name.prefetch_list, Len(last.pre.prefetch_list) + 1,
           Len(last.by_name.prefetch_list))

\* A batched-load entry for the relation the last merge was made under.
BatchedLoadGained ==
    \E i \in 1..Len(GainedPrefetches) : GainedPrefetches[i].prefetch_to = last.name

\* C6 as stated: a forward single-valued relation whose nested selection
\* classifies gains a join path and no batched-load entry for the relation,
\* a many-valued relation gains a batched-load entry and no join path,
\* whatever the nested store holds.
JoinVsBatch ==
    /\ (last.op = "merge" /\ last.branch = "select_related" /\ last.classified) =>
           GainedSelects # <<>> /\ ~BatchedLoadGained
    /\ (last.op = "merge" /\ last.branch = "prefetch_related") =>
           GainedSelects = <<>> /\ GainedPrefetches # <<>>

\* C6 amended: the forward relation gains a join path and no batched-load
\* entry when its nested store carries no annotation; when it carries one,
\* the parent gains no join path but a batched load bound to the related
\* model's query, and the relation's stored column as a forced column.  The
\* many-valued relation always gains batched loads and no join path.
JoinVsBatchByAnnotation ==
    /\ (last.op = "merge" /\ last.branch = "select_related" /\ last.classified) =>
           IF DOMAIN last.child.annotate_dict = {}
           THEN /\ GainedSelects # <<>>
                /\ ~BatchedLoadGained
           ELSE /\ GainedSelects = <<>>
                /\ GainedPrefetches # <<>>
                /\ last.by_name.append_only_list =
                       Append(last.pre.append_only_list, LastModelField.attname)
    /\ (last.op = "merge" /\ last.branch = "prefetch_related") =>
           GainedSelects = <<>> /\ GainedPrefetches # <<>>

\* C6 witness: a forward relation whose nested store carries an annotation
\* has been merged as a batched load, its stored column forced.
JoinVsBatchByAnnotationWitness ==
    /\ last.op = "merge"
    /\ last.branch = "select_related"
    /\ last.classified
    /\ DOMAIN last.child.annotate_dict # {}
    /\ BatchedLoadGained
    /\ last.by_name.append_only_list = <<"author_id">>

\* Whether the last field resolved to a foreign key's stored column.
LastIsForeignKeyId ==
    /\ last.field # ""
    /\ last.op \in {"field", "call"}
    /\ LastModelField.is_foreign_key
    /\ LastModelField.attname = last.name
    /\ LastModelField.name # last.name
    /\ ~LastHints.ignore

\* C7: a field that resolves to the stored-column name of a forward foreign
\* key, which is not the relation's name, walks no nested selection, leaves
\* select_list and prefetch_list as they were, and appends that one column
\* to only_list (nothing when only_list is None).
FkShortcut ==
    LastIsForeignKeyId =>
        /\ last.op = "field"
        /\ last.by_name.select_list = last.pre.select_list
        /\ last.by_name.prefetch_list = last.pre.prefetch_list
        /\ last.by_name.only_none = last.pre.only_none
        /\ last.by_name.only_list =
               IF last.pre.only_none THEN <<>> ELSE Append(last.pre.only_list, last.name)

\* C7 witness: authorId (attribute author_id of the foreign key author) has
\* been requested after another column.
FkShortcutWitness ==
    /\ LastIsForeignKeyId
    /\ last.name = "author_id"
    /\ last.pre.only_list # <<>>
    /\ Top.store.only_list = Append(last.pre.only_list, "author_id")
    /\ Top.store.select_list = <<>>

\* C8: no call of the walk raises.
NoFatalError == pc # "raised"

\* C9: a store whose only_list is None keeps it None, with no column, in
\* every later call on it, as the parent of a merge (the frames below the
\* top) and as the child of one (the store a returning walk hands over).
AbortIrreversible ==
    [][/\ \A i \in 1..Len(stack) :
             (i <= Len(stack') /\ stack[i].store.only_none) =>
                 /\ stack'[i].store.only_none
                 /\ stack'[i].store.only_list = <<>>
       /\ (Len(stack') < Len(stack) /\ Top.store.only_none) =>
                 /\ last'.child.only_none
                 /\ last'.child.only_list = <<>>
                 /\ last'.child_after.only_none
                 /\ last'.child_after.only_list = <<>>]_vars

\* C9 witness: a store that was None already has been the parent of a merge
\* whose child brought columns, and is None still.
AbortIrreversibleWitness ==
    /\ last.op = "merge"
    /\ last.pre.only_none
    /\ ~last.child.only_none
    /\ last.child.only_list # <<>>
    /\ Top.store.only_none
    /\ Top.store.only_list = <<>>

\* C10: the join merge of a child store without annotations.  The parent's
\* select_list gains name, or each of the child's paths prefixed with name;
\* its prefetch_list gains each of the child's entries prefixed with name;
\* with both only_lists active its only_list gains the prefixed identifier
\* override (if given and not "pk") and then the child's columns prefixed,
\* and its append_only_list the child's forced columns prefixed; with the
\* parent's active and the child's None the parent's becomes None.
JoinMergeRule ==
    (last.op = "merge" /\ last.branch \in {"select_related", "inline"}
       /\ DOMAIN last.child.annotate_dict = {}) =>
        LET P == last.pre
            C == last.child
            R == last.by_name
            under == last.name \o LOOKUP_SEP
            id_column == IF LastIdField \notin {"", "pk"} THEN <<under \o LastIdField>> ELSE <<>>
        IN  /\ R.select_list =
                  IF C.select_list = <<>>
                  THEN Append(P.select_list, last.name)
                  ELSE P.select_list \o [i \in 1..Len(C.select_list) |-> under \o C.select_list[i]]
            /\ Len(R.prefetch_list) = Len(P.prefetch_list) + Len(C.prefetch_list)
            /\ \A i \in 1..Len(P.prefetch_list) : R.prefetch_list[i] = P.prefetch_list[i]
            /\ \A i \in 1..Len(C.prefetch_list) :
                   LET r == R.prefetch_list[Len(P.prefetch_list) + i]
                       c == C.prefetch_list[i]
                   IN  /\ r.prefetch_to = under \o c.prefetch_to
                       /\ r.bound = c.bound
                       /\ r.queryset = c.queryset
            /\ (~P.only_none /\ ~C.only_none) =>
                   /\ ~R.only_none
                   /\ R.only_list =
                          P.only_list \o id_column
                              \o [i \in 1..Len(C.only_list) |-> under \o C.only_list[i]]
                   /\ R.append_only_list =
                          P.append_only_list
                              \o [i \in 1..Len(C.append_only_list) |->
                                    under \o C.append_only_list[i]]
            /\ (~P.only_none /\ C.only_none) => R.only_none /\ R.only_list = <<>>

\* C10 witness: a child with a column and a join path or batched load of its
\* own has been join-merged under a type that overrides the identifier.
JoinMergeRuleWitness ==
    /\ last.op = "merge"
    /\ last.branch = "select_related"
    /\ DOMAIN last.child.annotate_dict = {}
    /\ LastIdField = "uuid"
    /\ ~last.pre.only_none
    /\ last.child.only_list # <<>>
    /\ \/ last.child.select_list # <<>>
       \/ last.child.prefetch_list # <<>>
    /\ last.by_name.only_list[Len(last.pre.only_list) + 1] = "author__uuid"

\* Whether the last call was a batched-load merge.
LastBatched ==
    /\ last.op = "merge"
    /\ \/ last.branch = "prefetch_related"
       \/ last.branch = "select_related" /\ DOMAIN last.child.annotate_dict # {}

OptimizedFlag ==
    (last.op \in {"optimize", "merge"} /\ last.queryset # NoQueryset) =>
        (last.queryset.gql_optimized <=> last.queryset.projected)

\* C13: after a merge, every annotation of the child store is in the
\* parent's annotate_dict or in the bound query of a batched-load entry the
\* merge recorded under the child's name.
AnnotationsKept ==
    last.op = "merge" =>
        \A k \in DOMAIN last.child.annotate_dict :
            \/ /\ k \in DOMAIN last.by_name.annotate_dict
               /\ last.by_name.annotate_dict[k] = last.child.annotate_dict[k]
            \/ \E i \in 1..Len(GainedPrefetches) :
                   /\ GainedPrefetches[i].bound
                   /\ GainedPrefetches[i].prefetch_to = last.name
                   /\ k \in DOMAIN GainedPrefetches[i].queryset.annotate
                   /\ GainedPrefetches[i].queryset.annotate[k] = last.child.annotate_dict[k]

=============================================================================
